---------------------------- MODULE Spec2Model ----------------------------
(***************************************************************************)
(* Model of update_journey_data.py: the TFL journey fetch, the stitching   *)
(* of first and second legs at the interchange, and the merge / sort /     *)
(* truncate stage of main.                                                 *)
(*                                                                         *)
(* Time.  An ISO timestamp is an absolute instant in seconds counted from  *)
(* midnight of the run's first day (so 86400 is midnight of the next day). *)
(* An 'HH:MM' string is the minute of the day, 0..1439.  strftime and      *)
(* strptime are the conversions between the two.                           *)
(*                                                                         *)
(* Records.  Display-only fields (origin, destination, platform, status,   *)
(* scheduled_departure, live_updated_at) are left out.  Each leg record of *)
(* a journey carries the raw API leg it was built from in the field raw;   *)
(* no operation reads it, it is there so that properties can speak about   *)
(* the instants behind the 'HH:MM' strings.                                *)
(***************************************************************************)
EXTENDS Integers, Sequences, FiniteSets

VARIABLES pc, failed, direct_data, first_legs, second_legs, stitched_data,
          sorted_data, final_output, live_data

vars == <<pc, failed, direct_data, first_legs, second_legs, stitched_data,
          sorted_data, final_output, live_data>>

\* ---------------------------------------------------------------- constants
ORIGIN == "Streatham Common Rail Station"
DESTINATION == "Imperial Wharf Rail Station"
INTERCHANGE_STATION == "Clapham Junction Rail Station"
NUM_JOURNEYS == 8
MIN_TRANSFER_TIME_MINUTES == 1
MAX_RETRIES == 3

\* ------------------------------------------------------------------ bounds
\* longest API response (number of journeys) in the pipeline specification
MaxResponse == 2
\* longest first_legs / second_legs list handed to the stitcher directly
MaxLegs == 2
\* number of direct trains in the specification with many journeys
MaxMany == 9

\* ------------------------------------------------------------ time helpers
SecondsPerMinute == 60
MinutesPerDay == 24 * 60
SecondsPerDay == 24 * 60 * 60

\* the instant of day d (0 or 1) at h:m:s
At(d, h, m, s) == d * SecondsPerDay + (h * 60 + m) * SecondsPerMinute + s

\* the minute-of-day value of the string 'HH:MM'
HM(h, m) == h * 60 + m

\* datetime.strftime('%H:%M'): drops the date and the seconds
strftime(t) == (t \div SecondsPerMinute) % MinutesPerDay

\* datetime.strptime(s, '%H:%M'): the instant on 1900-01-01, in seconds from
\* that day's midnight
strptime(hm) == hm * SecondsPerMinute

\* int(td.total_seconds() / 60): truncation toward zero
minutes_of(seconds) ==
    IF seconds >= 0 THEN seconds \div SecondsPerMinute
                    ELSE -((-seconds) \div SecondsPerMinute)

\* --------------------------------------------------------- generic helpers
Min(a, b) == IF a <= b THEN a ELSE b

Take(s, n) == SubSeq(s, 1, Min(n, Len(s)))

\* the elements of the index set S of sequence s, in ascending index order
Pick(s, S) ==
    [k \in 1..Cardinality(S) |->
        s[CHOOSE i \in S : Cardinality({j \in S : j < i}) = k - 1]]

RECURSIVE Flatten(_)
Flatten(ss) == IF ss = <<>> THEN <<>> ELSE Head(ss) \o Flatten(Tail(ss))

\* sorted(s, key=...) and list.sort(key=...): stable, ascending; key[i] is
\* the key of s[i]
SortBy(s, key) ==
    LET n == Len(s)
        rank == [i \in 1..n |->
                    Cardinality({j \in 1..n :
                        key[j] < key[i] \/ (key[j] = key[i] /\ j < i)}) + 1]
    IN  [p \in 1..n |-> s[CHOOSE i \in 1..n : rank[i] = p]]

SeqsUpTo(S, n) == UNION {[1..k -> S] : k \in 0..n}

\* the sequences of SeqsUpTo(S, n) without a repeated element
DistinctSeqsUpTo(S, n) ==
    {s \in SeqsUpTo(S, n) : \A i, j \in 1..Len(s) : s[i] = s[j] => i = j}

\* ------------------------------------------------------------ raw API data
\* a leg without an 'operator' entry
NoOperator == "<absent>"

\* a train leg of a TFL journey result
TrainLeg(dep, arr, dest, op, line) ==
    [mode |-> "national-rail", arrivalPoint |-> dest, departureTime |-> dep,
     arrivalTime |-> arr, operator |-> op, line |-> line]

\* a walking leg in front of a train leg
WalkLeg(dep, arr) ==
    [mode |-> "walking", arrivalPoint |-> ORIGIN, departureTime |-> dep,
     arrivalTime |-> arr, operator |-> NoOperator, line |-> "walk"]

Journey(legs, duration) == [legs |-> legs, duration |-> duration]

IsTrain(leg) == leg.mode \in {"overground", "national-rail"}

\* leg.get('operator', {}).get('id', 'N/A')
operator_id_or_na(leg) ==
    IF leg.operator = NoOperator THEN "N/A" ELSE leg.operator

\* leg.get('operator', {}).get('id')
operator_id_or_none(leg) ==
    IF leg.operator = NoOperator THEN "None" ELSE leg.operator

\* ------------------------------------------------------------------ fetch
\* retry_fetch: api.fails attempts fail before one succeeds; the last failed
\* attempt re-raises
retry_fetch(api) ==
    IF api.fails < MAX_RETRIES
    THEN [raised |-> FALSE, json |-> api.journeys]
    ELSE [raised |-> TRUE, json |-> <<>>]

\* get_segment_journeys without the except clause: the exception leaves it
get_segment_journeys_reraising(api) ==
    LET r == retry_fetch(api)
    IN  [raised |-> r.raised, journeys |-> r.json]

\* get_segment_journeys: any exception of retry_fetch becomes an empty list
get_segment_journeys(api) ==
    LET r == retry_fetch(api)
    IN  IF r.raised THEN [raised |-> FALSE, journeys |-> <<>>]
                    ELSE [raised |-> FALSE, journeys |-> r.json]

\* ---------------------------------------------- extract_valid_train_legs
\* the first train leg of a journey, kept when it arrives at the expected
\* destination; <<>> or a one-element sequence
first_train_leg(journey, expected_destination) ==
    LET trains == {i \in 1..Len(journey.legs) : IsTrain(journey.legs[i])}
    IN  IF trains = {} THEN <<>>
        ELSE LET i == CHOOSE i \in trains : \A j \in trains : i <= j
                 leg == journey.legs[i]
             IN  IF leg.arrivalPoint = expected_destination
                 THEN <<leg>> ELSE <<>>

leg_key(leg) == <<leg.departureTime, leg.arrivalTime, leg.line>>

\* the values of a dict built from the pairs (key[i], s[i]) in sequence
\* order: one entry per key, at the position of the key's first occurrence,
\* holding the last value stored under the key
dict_values(s, key) ==
    LET n == Len(s)
        firsts == {i \in 1..n : \A j \in 1..(i - 1) : key[j] # key[i]}
        last(i) == CHOOSE j \in 1..n :
                       /\ key[j] = key[i]
                       /\ \A k \in (j + 1)..n : key[k] # key[i]
        lasts == [i \in 1..n |-> s[last(i)]]
    IN  Pick(lasts, firsts)

extract_valid_train_legs(journeys, expected_destination) ==
    LET valid_legs ==
            Flatten([i \in 1..Len(journeys) |->
                        first_train_leg(journeys[i], expected_destination)])
    IN  dict_values(valid_legs,
                    [i \in 1..Len(valid_legs) |-> leg_key(valid_legs[i])])

\* ----------------------------------------- group_connections_by_first_leg
leg1_key(leg1) == <<leg1.departureTime, leg1.arrivalTime>>

first_leg_data(leg1) ==
    [departure |-> strftime(leg1.departureTime),
     arrival |-> strftime(leg1.arrivalTime),
     operator |-> operator_id_or_na(leg1),
     raw |-> leg1]

transfer_time_minutes(leg1, leg2) ==
    minutes_of(leg2.departureTime - leg1.arrivalTime)

\* the test with the minimum left out: any second leg not before the arrival
transfer_ok_nonnegative(minutes) == minutes >= 0

\* the test that admits a second leg as a connection
transfer_ok(minutes) == minutes >= MIN_TRANSFER_TIME_MINUTES

connection(leg1, leg2) ==
    [transferTime |-> transfer_time_minutes(leg1, leg2),
     second_leg |-> [departure |-> strftime(leg2.departureTime),
                     arrival |-> strftime(leg2.arrivalTime),
                     operator |-> operator_id_or_na(leg2),
                     raw |-> leg2]]

\* the connections one pass of the inner loop appends for leg1
connections_of(leg1, legs2) ==
    LET ok == {i \in 1..Len(legs2) :
                  transfer_ok(transfer_time_minutes(leg1, legs2[i]))}
    IN  Pick([i \in 1..Len(legs2) |-> connection(leg1, legs2[i])], ok)

\* grouped_segments.values() after the two nested loops
grouped_segments(legs1, legs2) ==
    LET sorted_first_legs ==
            SortBy(legs1, [i \in 1..Len(legs1) |-> legs1[i].departureTime])
        n == Len(sorted_first_legs)
        firsts == {i \in 1..n : \A j \in 1..(i - 1) :
                      leg1_key(sorted_first_legs[j]) # leg1_key(sorted_first_legs[i])}
        appended(i) ==
            Flatten([j \in 1..n |->
                IF leg1_key(sorted_first_legs[j]) = leg1_key(sorted_first_legs[i])
                THEN connections_of(sorted_first_legs[j], legs2)
                ELSE <<>>])
        segment(i) == [type |-> "One Change",
                       first_leg |-> first_leg_data(sorted_first_legs[i]),
                       connections |-> appended(i)]
    IN  Pick([i \in 1..n |-> segment(i)], firsts)

\* the sort of a segment's connections
sort_connections(conns) ==
    SortBy(conns, [i \in 1..Len(conns) |-> strptime(conns[i].second_leg.departure)])

\* the duration without the midnight correction
total_duration_same_day(dep, arr) == minutes_of(strptime(arr) - strptime(dep))

\* minutes from 'HH:MM' dep to 'HH:MM' arr, a day added when arr < dep
total_duration(dep, arr) ==
    LET l1_dep == strptime(dep)
        l2_arr == IF strptime(arr) < l1_dep
                  THEN strptime(arr) + SecondsPerDay
                  ELSE strptime(arr)
    IN  minutes_of(l2_arr - l1_dep)

\* the final processing of one segment with connections
finish_segment(segment) ==
    LET conns == sort_connections(segment.connections)
    IN  [type |-> segment.type,
         first_leg |-> segment.first_leg,
         connections |-> conns,
         totalDuration |-> total_duration(segment.first_leg.departure,
                                          conns[1].second_leg.arrival),
         arrivalTime |-> conns[1].second_leg.arrival,
         departureTime |-> segment.first_leg.departure,
         unique_id |-> <<segment.first_leg.departure,
                         segment.first_leg.operator>>]

group_connections_by_first_leg(legs1, legs2) ==
    LET grouped == grouped_segments(legs1, legs2)
        with == {i \in 1..Len(grouped) : grouped[i].connections # <<>>}
    IN  Pick([i \in 1..Len(grouped) |->
                 IF i \in with THEN finish_segment(grouped[i]) ELSE grouped[i]],
             with)

\* --------------------------------------------------------- direct journeys
process_direct_journey(journey, leg) ==
    [type |-> "Direct",
     departureTime |-> strftime(leg.departureTime),
     arrivalTime |-> strftime(leg.arrivalTime),
     totalDuration |-> journey.duration,
     unique_id |-> <<strftime(leg.departureTime), operator_id_or_na(leg)>>,
     first_leg |-> [departure |-> strftime(leg.departureTime),
                    arrival |-> strftime(leg.arrivalTime),
                    operator |-> operator_id_or_na(leg),
                    raw |-> leg],
     connections |-> <<>>]

is_direct(journey) ==
    /\ Len(journey.legs) = 1
    /\ IsTrain(journey.legs[1])
    /\ journey.legs[1].arrivalPoint = DESTINATION

\* the body of get_direct_journeys, given the fetched journeys
direct_journeys_of(journeys) ==
    LET direct == {i \in 1..Len(journeys) : is_direct(journeys[i])}
    IN  Pick([i \in 1..Len(journeys) |->
                 IF i \in direct
                 THEN process_direct_journey(journeys[i], journeys[i].legs[1])
                 ELSE journeys[i]],
             direct)

\* ------------------------------------------------- get_one_change_journeys
\* the identity under which a first leg is looked up among the direct trains
leg_id(leg) == <<strftime(leg.departureTime), operator_id_or_none(leg)>>

\* first legs that are not a known direct service
filtered_first_legs(legs, direct_journeys) ==
    LET direct_train_ids ==
            {direct_journeys[i].unique_id : i \in 1..Len(direct_journeys)}
    IN  SelectSeq(legs, LAMBDA leg : leg_id(leg) \notin direct_train_ids)

\* -------------------------------------------------------------------- main
sort_segments(combined) ==
    SortBy(combined,
           [i \in 1..Len(combined) |-> strptime(combined[i].first_leg.departure)])

\* the loop body of main: segment_id set, unique_id popped
stamp(segment, idx) ==
    [type |-> segment.type,
     departureTime |-> segment.departureTime,
     arrivalTime |-> segment.arrivalTime,
     totalDuration |-> segment.totalDuration,
     first_leg |-> segment.first_leg,
     connections |-> segment.connections,
     segment_id |-> idx + 1]

\* final_output[-NUM_JOURNEYS:]: the cut that keeps the tail
limit_tail(stamped) ==
    SubSeq(stamped, Len(stamped) - Min(NUM_JOURNEYS, Len(stamped)) + 1, Len(stamped))

\* final_output[:NUM_JOURNEYS]
limit(stamped) == Take(stamped, NUM_JOURNEYS)


\* ------------------------------------------------------------- API inputs
\* Responses of the direct search (ORIGIN to DESTINATION): a train shortly
\* before midnight, a train after midnight without an operator entry, and a
\* walk followed by a train (not a direct journey).
DirectJourneys ==
    { Journey(<<TrainLeg(At(0, 23, 40, 0), At(1, 0, 10, 0), DESTINATION,
                         "southern", "southern")>>, 30),
      Journey(<<TrainLeg(At(1, 0, 2, 0), At(1, 0, 30, 0), DESTINATION,
                         NoOperator, "london-overground")>>, 28),
      Journey(<<WalkLeg(At(0, 23, 50, 0), At(0, 23, 58, 0)),
                TrainLeg(At(0, 23, 58, 0), At(1, 0, 20, 0), DESTINATION,
                         "southern", "southern")>>, 30) }

\* Responses of the first-leg search (ORIGIN to INTERCHANGE_STATION): the
\* first legs of the two direct trains above, a train that is not a direct
\* service, and a train that ends elsewhere.
FirstLegJourneys ==
    { Journey(<<TrainLeg(At(0, 23, 40, 0), At(0, 23, 50, 0),
                         INTERCHANGE_STATION, "southern", "southern")>>, 10),
      Journey(<<WalkLeg(At(0, 23, 55, 0), At(1, 0, 2, 0)),
                TrainLeg(At(1, 0, 2, 0), At(1, 0, 12, 0),
                         INTERCHANGE_STATION, NoOperator, "london-overground")>>, 17),
      Journey(<<TrainLeg(At(0, 23, 58, 0), At(1, 0, 0, 0),
                         INTERCHANGE_STATION, "southern", "southern")>>, 2),
      Journey(<<TrainLeg(At(0, 23, 45, 0), At(0, 23, 52, 0),
                         "Balham Rail Station", "southern", "southern")>>, 7) }

\* Responses of the second-leg search (INTERCHANGE_STATION to DESTINATION): a
\* train before midnight, one after, and one whose arrival equals its
\* departure.
SecondLegJourneys ==
    { Journey(<<TrainLeg(At(0, 23, 55, 0), At(0, 23, 59, 0), DESTINATION,
                         "london-overground", "london-overground")>>, 4),
      Journey(<<TrainLeg(At(1, 0, 1, 0), At(1, 0, 5, 0), DESTINATION,
                         "london-overground", "london-overground")>>, 4),
      Journey(<<TrainLeg(At(1, 0, 20, 0), At(1, 0, 20, 0), DESTINATION,
                         "london-overground", "london-overground")>>, 0) }

DirectResponses == SeqsUpTo(DirectJourneys, MaxResponse)
FirstLegResponses == SeqsUpTo(FirstLegJourneys, MaxResponse)
SecondLegResponses == SeqsUpTo(SecondLegJourneys, MaxResponse)

\* A daytime batch with many direct trains: direct train i leaves seven
\* minutes after train i - 1 (10:07, 10:14, ...), and the search answers with
\* a run of consecutive trains, earliest first or latest first.  Train 5
\* (10:35) is also the second of the two first legs below.
ManyDirect(i) ==
    Journey(<<TrainLeg(At(0, 10, 7 * i, 0), At(0, 10, 7 * i + 25, 0), DESTINATION,
                       "southern", "southern")>>, 25)

Ascending(lo, hi) == [k \in 1..(hi - lo + 1) |-> ManyDirect(lo + k - 1)]

Descending(lo, hi) == [k \in 1..(hi - lo + 1) |-> ManyDirect(hi - k + 1)]

ManyFirstLeg1 ==
    Journey(<<TrainLeg(At(0, 10, 5, 0), At(0, 10, 15, 0),
                       INTERCHANGE_STATION, "southern", "southern")>>, 10)

ManyFirstLeg2 ==
    Journey(<<TrainLeg(At(0, 10, 35, 0), At(0, 10, 45, 0),
                       INTERCHANGE_STATION, "southern", "southern")>>, 10)

ManySecondLeg ==
    Journey(<<TrainLeg(At(0, 10, 50, 0), At(0, 10, 58, 0), DESTINATION,
                       "london-overground", "london-overground")>>, 8)

ManyDirectResponses ==
    {<<>>} \cup {Ascending(lo, hi) : lo \in 1..MaxMany, hi \in 1..MaxMany}
           \cup {Descending(lo, hi) : lo \in 1..MaxMany, hi \in 1..MaxMany}
ManyFirstLegResponses == {<<>>, <<ManyFirstLeg1>>, <<ManyFirstLeg2, ManyFirstLeg1>>}
ManySecondLegResponses == {<<>>, <<ManySecondLeg>>}

\* First and second legs handed to group_connections_by_first_leg directly.
\* First legs: a train, the same train reported under another line id, the
\* same departure and operator with a later arrival, a train over midnight,
\* and a leg whose arrival equals its departure.
FirstLegs ==
    { TrainLeg(At(0, 23, 40, 0), At(0, 23, 50, 0), INTERCHANGE_STATION,
               "southern", "southern"),
      TrainLeg(At(0, 23, 40, 0), At(0, 23, 50, 0), INTERCHANGE_STATION,
               "southern", "thameslink"),
      TrainLeg(At(0, 23, 40, 0), At(0, 23, 52, 0), INTERCHANGE_STATION,
               "southern", "southern"),
      TrainLeg(At(0, 23, 58, 0), At(1, 0, 0, 0), INTERCHANGE_STATION,
               NoOperator, "southern"),
      TrainLeg(At(0, 23, 45, 0), At(0, 23, 45, 0), INTERCHANGE_STATION,
               "southern", "southern") }

\* Second legs: one minute after the 23:50 arrival, thirty seconds after it,
\* one after midnight, and one that arrives before it departs.
SecondLegs ==
    { TrainLeg(At(0, 23, 51, 0), At(0, 23, 57, 0), DESTINATION,
               "london-overground", "london-overground"),
      TrainLeg(At(0, 23, 50, 30), At(0, 23, 56, 0), DESTINATION,
               "london-overground", "london-overground"),
      TrainLeg(At(1, 0, 1, 0), At(1, 0, 5, 0), DESTINATION,
               "london-overground", "london-overground"),
      TrainLeg(At(0, 23, 55, 0), At(0, 23, 54, 0), DESTINATION,
               NoOperator, "london-overground") }

\* ----------------------------------------------------------------- actions
Init ==
    /\ pc = "start"
    /\ failed = {}
    /\ direct_data = <<>>
    /\ first_legs = <<>>
    /\ second_legs = <<>>
    /\ stitched_data = <<>>
    /\ sorted_data = <<>>
    /\ final_output = <<>>
    /\ live_data = <<>>

\* an exception that leaves main
Abort ==
    /\ pc' = "aborted"
    /\ UNCHANGED <<failed, direct_data, first_legs, second_legs,
                   stitched_data, sorted_data, final_output, live_data>>

\* main step 1: get_direct_journeys, the search answering with one of R
GetDirect(R) ==
    /\ pc = "start"
    /\ \E journeys \in R, fails \in 0..MAX_RETRIES :
         LET api == [fails |-> fails, journeys |-> journeys]
             got == get_segment_journeys(api)
         IN  IF got.raised THEN Abort
             ELSE /\ direct_data' = direct_journeys_of(got.journeys)
                  /\ failed' = IF retry_fetch(api).raised
                               THEN failed \cup {"direct"} ELSE failed
                  /\ pc' = "one_change"
                  /\ UNCHANGED <<first_legs, second_legs, stitched_data,
                                 sorted_data, final_output, live_data>>

\* main step 2, get_one_change_journeys up to the call of the stitcher: both
\* leg searches, the extraction and the filter against the direct trains
FetchLegs(R1, R2) ==
    /\ pc = "one_change"
    /\ \E journeys1 \in R1, fails1 \in 0..MAX_RETRIES :
         LET api1 == [fails |-> fails1, journeys |-> journeys1]
             got1 == get_segment_journeys(api1)
             legs1 == extract_valid_train_legs(got1.journeys, INTERCHANGE_STATION)
             failed1 == IF retry_fetch(api1).raised
                        THEN failed \cup {"first_leg"} ELSE failed
         IN  IF got1.raised THEN Abort
             ELSE IF legs1 = <<>>
             THEN /\ first_legs' = <<>>
                  /\ failed' = failed1
                  /\ stitched_data' = <<>>
                  /\ pc' = "merge"
                  /\ UNCHANGED <<direct_data, second_legs, sorted_data,
                                 final_output, live_data>>
             ELSE \E journeys2 \in R2, fails2 \in 0..MAX_RETRIES :
                    LET api2 == [fails |-> fails2, journeys |-> journeys2]
                        got2 == get_segment_journeys(api2)
                        legs2 == extract_valid_train_legs(got2.journeys, DESTINATION)
                    IN  IF got2.raised THEN Abort
                        ELSE /\ first_legs' = filtered_first_legs(legs1, direct_data)
                             /\ second_legs' = legs2
                             /\ failed' = IF retry_fetch(api2).raised
                                          THEN failed1 \cup {"second_leg"}
                                          ELSE failed1
                             /\ IF legs2 = <<>>
                                THEN stitched_data' = <<>> /\ pc' = "merge"
                                ELSE stitched_data' = stitched_data /\ pc' = "group"
                             /\ UNCHANGED <<direct_data, sorted_data,
                                            final_output, live_data>>

\* get_one_change_journeys step 3: group and process the connections
Stitch ==
    /\ pc = "group"
    /\ stitched_data' = group_connections_by_first_leg(first_legs, second_legs)
    /\ pc' = "merge"
    /\ UNCHANGED <<failed, direct_data, first_legs, second_legs, sorted_data,
                   final_output, live_data>>

\* main steps 3 and 4: combine, sort, number, truncate, write the file
Merge ==
    /\ pc = "merge"
    /\ LET combined_data == direct_data \o stitched_data
           sorted == sort_segments(combined_data)
           stamped == [i \in 1..Len(sorted) |-> stamp(sorted[i], i - 1)]
           final == limit(stamped)
       IN  /\ sorted_data' = stamped
           /\ final_output' = final
           /\ live_data' = IF final # <<>> THEN final ELSE live_data
    /\ pc' = "done"
    /\ UNCHANGED <<failed, direct_data, first_legs, second_legs, stitched_data>>

Next ==
    \/ GetDirect(DirectResponses)
    \/ FetchLegs(FirstLegResponses, SecondLegResponses)
    \/ Stitch
    \/ Merge

Spec == Init /\ [][Next]_vars

\* the pipeline on a daytime batch with many direct trains
NextMany ==
    \/ GetDirect(ManyDirectResponses)
    \/ FetchLegs(ManyFirstLegResponses, ManySecondLegResponses)
    \/ Stitch
    \/ Merge

SpecMany == Init /\ [][NextMany]_vars

\* group_connections_by_first_leg on arbitrary leg lists; as in the lists
\* extract_valid_train_legs returns, no leg occurs twice in a list
InitGroup ==
    /\ pc = "group"
    /\ failed = {}
    /\ direct_data = <<>>
    /\ first_legs \in DistinctSeqsUpTo(FirstLegs, MaxLegs)
    /\ second_legs \in DistinctSeqsUpTo(SecondLegs, MaxLegs)
    /\ stitched_data = <<>>
    /\ sorted_data = <<>>
    /\ final_output = <<>>
    /\ live_data = <<>>

NextGroup == Stitch \/ Merge

SpecGroup == InitGroup /\ [][NextGroup]_vars


\* ------------------------------------------------------------- properties
\* the identity of a journey's first leg: (departure 'HH:MM', operator)
Identity(j) == <<j.first_leg.departure, j.first_leg.operator>>

\* the fields of a journey that main neither adds nor removes
Core(j) == [type |-> j.type, first_leg |-> j.first_leg,
            connections |-> j.connections, totalDuration |-> j.totalDuration]

Cores(s) == [i \in 1..Len(s) |-> Core(s[i])]

Count(s, x) == Cardinality({i \in 1..Len(s) : s[i] = x})

Clock(j) == j.first_leg.departure

WellFormed(leg) == leg.arrivalTime > leg.departureTime

\* C1: in the final list no first-leg identity (departure 'HH:MM', operator)
\* is both the first leg of a Direct journey and the first leg of a One
\* Change journey, legs without an operator entry included.
C1_NoSelfDuplication ==
    pc = "done" =>
        \A i, j \in 1..Len(final_output) :
            ~ /\ final_output[i].type = "Direct"
              /\ final_output[j].type = "One Change"
              /\ Identity(final_output[i]) = Identity(final_output[j])

\* C2: every connection of every journey the stitcher returns has a transfer
\* time, the whole minutes from the first leg's arrival instant to the second
\* leg's departure instant, of at least MIN_TRANSFER_TIME_MINUTES; no second
\* leg that departs before, or less than the minimum after, the first leg's
\* arrival is attached.
C2_TransferWindow ==
    \A i \in 1..Len(stitched_data) :
        \A k \in 1..Len(stitched_data[i].connections) :
            LET c == stitched_data[i].connections[k]
                gap == c.second_leg.raw.departureTime
                         - stitched_data[i].first_leg.raw.arrivalTime
            IN  /\ c.transferTime >= MIN_TRANSFER_TIME_MINUTES
                /\ gap >= MIN_TRANSFER_TIME_MINUTES * SecondsPerMinute
                /\ c.transferTime * SecondsPerMinute <= gap
                /\ gap < (c.transferTime + 1) * SecondsPerMinute

\* a journey was stitched although one of the offered second legs departs
\* less than a minute after its first leg arrives, and another before
C2_Witness ==
    /\ pc = "merge"
    /\ \E i \in 1..Len(stitched_data) :
         LET arr == stitched_data[i].first_leg.raw.arrivalTime
         IN  /\ \E n \in 1..Len(second_legs) :
                    /\ second_legs[n].departureTime > arr
                    /\ second_legs[n].departureTime - arr < SecondsPerMinute
             /\ \E k \in 1..Len(stitched_data[i].connections) :
                    stitched_data[i].connections[k].transferTime
                        = MIN_TRANSFER_TIME_MINUTES

\* C3: the final list is in non-decreasing order of the first legs' departure
\* instants, also when the batch spans midnight, and segment_id is the
\* 1-based position.
C3_MonotonicOrdering ==
    pc = "done" =>
        \A i \in 1..Len(final_output) :
            /\ final_output[i].segment_id = i
            /\ \A j \in (i + 1)..Len(final_output) :
                   final_output[i].first_leg.raw.departureTime
                       <= final_output[j].first_leg.raw.departureTime

\* C4: the final list has length min(NUM_JOURNEYS, N) and is the prefix of the
\* combined list sorted by first-leg departure 'HH:MM'; a journey is missing
\* only if NUM_JOURNEYS journeys sorted at or before it are kept.
C4_SizeBoundHeadPreference ==
    pc = "done" =>
        LET combined == Cores(direct_data \o stitched_data)
            sorted == Cores(sorted_data)
            final == Cores(final_output)
            N == Len(combined)
        IN  /\ Len(final) = Min(NUM_JOURNEYS, N)
            /\ Len(sorted) = N
            /\ \A i \in 1..N : Count(sorted, combined[i]) = Count(combined, combined[i])
            /\ \A i \in 1..N : \A j \in (i + 1)..N : Clock(sorted[i]) <= Clock(sorted[j])
            /\ \A i \in 1..Len(final) : final[i] = sorted[i]
            /\ \A i \in 1..N :
                   Count(final, combined[i]) < Count(combined, combined[i]) =>
                       Cardinality({k \in 1..Len(final) :
                           Clock(final[k]) <= Clock(combined[i])}) >= NUM_JOURNEYS

\* more than NUM_JOURNEYS journeys, direct and stitched, were combined and
\* the list was cut
C4_Witness ==
    /\ pc = "done"
    /\ direct_data # <<>>
    /\ stitched_data # <<>>
    /\ Len(direct_data) + Len(stitched_data) > NUM_JOURNEYS
    /\ Len(final_output) = NUM_JOURNEYS

\* C5: totalDuration of a One Change journey is the minutes from the first
\* leg's departure 'HH:MM' to the 'HH:MM' arrival of the first connection's
\* second leg, a day added when the arrival is the earlier of the two; it is
\* never negative, 23:58 to 00:05 gives 7, and when the arrival instant is
\* less than a day after the departure instant it is the whole minutes
\* between the two.
C5_OvernightDuration ==
    \A i \in 1..Len(stitched_data) :
        LET j == stitched_data[i]
            dep == (j.first_leg.raw.departureTime \div SecondsPerMinute)
                       % MinutesPerDay
            arr == (j.connections[1].second_leg.raw.arrivalTime
                       \div SecondsPerMinute) % MinutesPerDay
        IN  /\ j.totalDuration >= 0
            /\ j.totalDuration =
                   IF arr < dep THEN arr + MinutesPerDay - dep ELSE arr - dep
            /\ (dep = HM(23, 58) /\ arr = HM(0, 5)) => j.totalDuration = 7
            /\ LET d == (j.connections[1].second_leg.raw.arrivalTime
                            \div SecondsPerMinute)
                         - (j.first_leg.raw.departureTime \div SecondsPerMinute)
               IN  (0 <= d /\ d < MinutesPerDay) => j.totalDuration = d

\* the 23:58 departure stitched to an arrival at 00:05 on the next day
C5_Witness ==
    \E i \in 1..Len(stitched_data) :
        /\ stitched_data[i].first_leg.departure = HM(23, 58)
        /\ stitched_data[i].arrivalTime = HM(0, 5)
        /\ stitched_data[i].connections[1].second_leg.raw.arrivalTime
               > stitched_data[i].first_leg.raw.departureTime
        /\ stitched_data[i].totalDuration = 7

\* C6: no leg whose arrival instant is not later than its departure instant
\* is in the final list, as a first leg or as the second leg of a connection.
C6_MalformedDiscarded ==
    pc = "done" =>
        \A i \in 1..Len(final_output) :
            /\ WellFormed(final_output[i].first_leg.raw)
            /\ \A k \in 1..Len(final_output[i].connections) :
                   WellFormed(final_output[i].connections[k].second_leg.raw)

\* the journeys of the type no failed fetch feeds: the direct journeys when a
\* leg search failed, the stitched ones when the direct search failed
Unaffected ==
    IF failed \cap {"first_leg", "second_leg"} # {}
    THEN (IF "direct" \in failed THEN <<>> ELSE Cores(direct_data))
    ELSE (IF "direct" \in failed THEN Cores(stitched_data) ELSE <<>>)

\* C7 as stated: a failed fetch yields an empty list, the run is not aborted,
\* and every journey of the unaffected type is in the final list.
C7_AllUnaffectedEmitted ==
    /\ pc # "aborted"
    /\ "direct" \in failed => direct_data = <<>>
    /\ (pc = "done" /\ failed \cap {"first_leg", "second_leg"} # {}) =>
           stitched_data = <<>>
    /\ pc = "done" =>
           \A i \in 1..Len(Unaffected) :
               \E k \in 1..Len(final_output) :
                   Core(final_output[k]) = Unaffected[i]

\* C7 amended: a failed fetch yields an empty list, the run is not aborted,
\* and a journey of the unaffected type is missing from the final list only
\* when NUM_JOURNEYS journeys that sort at or before it are in the list.
C7_UnaffectedEmittedUpToLimit ==
    /\ pc # "aborted"
    /\ "direct" \in failed => direct_data = <<>>
    /\ (pc = "done" /\ failed \cap {"first_leg", "second_leg"} # {}) =>
           stitched_data = <<>>
    /\ pc = "done" =>
           \A i \in 1..Len(Unaffected) :
               \/ \E k \in 1..Len(final_output) :
                      Core(final_output[k]) = Unaffected[i]
               \/ /\ Len(final_output) = NUM_JOURNEYS
                  /\ \A k \in 1..Len(final_output) :
                         Clock(final_output[k]) <= Clock(Unaffected[i])

\* the first-leg search failed after its retries, the run still ended, and
\* the direct journeys, more than NUM_JOURNEYS of them, fill the final list
C7_Witness ==
    /\ pc = "done"
    /\ failed = {"first_leg"}
    /\ Len(direct_data) > NUM_JOURNEYS
    /\ Len(final_output) = NUM_JOURNEYS
    /\ \A k \in 1..Len(final_output) : final_output[k].type = "Direct"

\* C8: the stitcher returns at most one journey per first-leg identity
\* (departure 'HH:MM', operator).
C8_FirstLegUniqueness ==
    \A i, j \in 1..Len(stitched_data) :
        stitched_data[i].unique_id = stitched_data[j].unique_id => i = j

\* C9: with no second leg repeated in second_legs, no journey the stitcher
\* returns lists the same second leg twice.
C9_ConnectionsDeduplicated ==
    (\A m, n \in 1..Len(second_legs) : second_legs[m] = second_legs[n] => m = n)
    => \A i \in 1..Len(stitched_data) :
           \A a, b \in 1..Len(stitched_data[i].connections) :
               stitched_data[i].connections[a].second_leg.raw
                   = stitched_data[i].connections[b].second_leg.raw => a = b

\* C10: in every journey the stitcher returns the connections are in
\* ascending order of the second legs' departure instants, so in
\* non-decreasing order of transfer time, also when the second legs straddle
\* midnight, and arrivalTime and totalDuration come from the first of them.
C10_ConnectionOrdering ==
    \A i \in 1..Len(stitched_data) :
        LET j == stitched_data[i]
        IN  /\ \A a, b \in 1..Len(j.connections) :
                   a < b =>
                       /\ j.connections[a].second_leg.raw.departureTime
                              <= j.connections[b].second_leg.raw.departureTime
                       /\ j.connections[a].transferTime
                              <= j.connections[b].transferTime
            /\ j.arrivalTime = j.connections[1].second_leg.arrival
            /\ j.totalDuration =
                   total_duration(j.first_leg.departure,
                                  j.connections[1].second_leg.arrival)


=============================================================================
